---- MODULE Spec2Model ----
(***************************************************************************)
(* A model of the looping tone generator: the GenSynthNote voice class     *)
(* (src/GenSynthNote.js) and the page script that drives it with timers    *)
(* and slider handlers (src/unnamed/part_000).                             *)
(*                                                                         *)
(* Units.  Times are integers in milliseconds: loopTime = 125 is the       *)
(* source's number, the envelope times 0.01 s, 0.1 s, 0.9 s are 10, 100,   *)
(* 900, and AudioContext.currentTime (seconds) is now / 1000.  Gains, the  *)
(* sustain fraction and frequencies are exact rationals [n, d].            *)
(*                                                                         *)
(* The page script uses two nodes, delay and delFb, that the source leaves *)
(* to be added in its TODO section.  The model takes delay to exist (it is *)
(* only the destination a voice connects to) and leaves out the #fb        *)
(* handler, which touches nothing but delFb.                               *)
(***************************************************************************)
EXTENDS Integers, Sequences, FiniteSets, TLC

VARIABLES
    now,          \* the clock, ms (timer clock and AudioContext clock alike)
    ctxState,     \* myLab4AudCtx.state
    attack,       \* the four global envelope settings of the page script
    decay,
    sustain,
    release,
    labels,       \* what the four slider labels show
    looper,       \* the id of the interval timer, or Null
    intervals,    \* active interval timers: records [id, due]
    timeouts,     \* pending one-shot timers: records [id, due, note]
    nextTimerId,  \* the next timer id the browser hands out
    notes,        \* every GenSynthNote constructed so far, in creation order
    log,          \* history: per note, the start()/stop() calls made on it
    inputLog      \* history: the slider events delivered, with their outcome

vars == <<now, ctxState, attack, decay, sustain, release, labels, looper,
          intervals, timeouts, nextTimerId, notes, log, inputLog>>

-----------------------------------------------------------------------------
(* Bounds of the exploration. *)

MaxNotes == 2        \* voices constructed in one run
MaxTimerId == 3      \* timer ids handed out in one run
MaxInputs == 1       \* slider events delivered in one run
MaxCalls == 3        \* start()/stop() calls a client makes in one run
MaxTime == 400       \* the clock stops here

(* Program constants. *)

LoopTime == 125          \* loopTime, ms
DefaultAttack == 10      \* attack  = 0.01 s
DefaultDecay == 100      \* decay   = 0.1 s
DefaultRelease == 900    \* release = 0.9 s
Null == 0                \* looper = null (timer ids start at 1)
NoStop == -1             \* no stop time has been set on the oscillator

-----------------------------------------------------------------------------
(* Exact rational arithmetic for gains and frequencies. *)

Abs(x) == IF x < 0 THEN -x ELSE x

Min(a, b) == IF a <= b THEN a ELSE b

RECURSIVE GCD(_, _)
GCD(a, b) == IF b = 0 THEN a ELSE GCD(b, a % b)

Rat(n, d) ==
    LET g == GCD(Abs(n), d)
    IN  [n |-> n \div g, d |-> d \div g]

RAdd(a, b) ==
    LET g == GCD(a.d, b.d)
    IN  Rat(a.n * (b.d \div g) + b.n * (a.d \div g), (a.d \div g) * b.d)

RSub(a, b) == RAdd(a, [n |-> -b.n, d |-> b.d])

RMul(a, b) ==
    LET g1 == GCD(Abs(a.n), b.d)
        g2 == GCD(Abs(b.n), a.d)
    IN  Rat((a.n \div g1) * (b.n \div g2), (a.d \div g2) * (b.d \div g1))

RLeq(a, b) == a.n * b.d <= b.n * a.d

(* v0 + (v1 - v0) * (t - t0) / (t1 - t0), for t0 <= t < t1 *)
Lerp(v0, t0, v1, t1, t) ==
    RAdd(v0, RMul(RSub(v1, v0), Rat(t - t0, t1 - t0)))

-----------------------------------------------------------------------------
(* AudioParam: the [[current value]] slot and the automation event list,   *)
(* kept in time order.  An event is [k, v, t]: k = "set" for               *)
(* setValueAtTime, "ramp" for linearRampToValueAtTime.                     *)

AudioParam(v) == [value |-> v, ev |-> <<>>]

(* cancelScheduledValues(t): drop every event at or after t.  The current  *)
(* value slot is left as the last rendering set it.                        *)
CancelScheduledValues(p, t) ==
    [p EXCEPT !.ev = SelectSeq(@, LAMBDA e : e.t < t)]

(* A new event goes after the events at times <= its own.                  *)
InsertEvent(p, e) ==
    LET before == SelectSeq(p.ev, LAMBDA x : x.t <= e.t)
        after  == SelectSeq(p.ev, LAMBDA x : x.t > e.t)
    IN  [p EXCEPT !.ev = before \o <<e>> \o after]

SetValueAtTime(p, v, t) == InsertEvent(p, [k |-> "set", v |-> v, t |-> t])

LinearRampToValueAtTime(p, v, t) == InsertEvent(p, [k |-> "ramp", v |-> v, t |-> t])

(* The value the automation timeline gives the parameter at time t.        *)
ValueAtTime(p, t) ==
    LET past == SelectSeq(p.ev, LAMBDA x : x.t <= t)
        fut  == SelectSeq(p.ev, LAMBDA x : x.t > t)
    IN  IF past = <<>>
        THEN p.value
        ELSE LET last == past[Len(past)]
             IN  IF fut # <<>> /\ fut[1].k = "ramp"
                 THEN Lerp(last.v, last.t, fut[1].v, fut[1].t, t)
                 ELSE last.v

(* Rendering up to time t refreshes the current value slot.                *)
Render(p, t) == [p EXCEPT !.value = ValueAtTime(p, t)]

-----------------------------------------------------------------------------
(* GenSynthNote *)

midiNotes == <<36, 48, 55, 58, 60, 62, 63, 65, 67, 69, 70, 72, 75, 79, 82>>

(* 440 * 2^((mn - 69)/12), in units of 1/100 Hz (rounded), tabulated for   *)
(* the pitches of the pool, the only ones a voice is built with.           *)
MtofTable ==
    [mn \in {midiNotes[i] : i \in DOMAIN midiNotes} |->
        CASE mn = 36 -> 6541   [] mn = 48 -> 13081  [] mn = 55 -> 19600
          [] mn = 58 -> 23308  [] mn = 60 -> 26163  [] mn = 62 -> 29366
          [] mn = 63 -> 31113  [] mn = 65 -> 34923  [] mn = 67 -> 39200
          [] mn = 69 -> 44000  [] mn = 70 -> 46616  [] mn = 72 -> 52325
          [] mn = 75 -> 62225  [] mn = 79 -> 78399  [] mn = 82 -> 93233]

mtof(mn) == Rat(MtofTable[mn], 100)

maxGain == Rat(1, 4)

(* new GenSynthNote(context, dest, midiNote, attack, decay, sustain,       *)
(* release): the oscillator is created, not started.                       *)
GenSynthNote(midiNote, a, d, s, r) ==
    LET f == mtof(midiNote)
    IN  [freq     |-> f,
         attack   |-> a,
         decay    |-> d,
         sustain  |-> s,
         release  |-> r,
         gain     |-> AudioParam(Rat(0, 1)),
         cutoff   |-> AudioParam(RMul(f, Rat(8, 1))),
         osc      |-> [started |-> FALSE, stopAt |-> NoStop]]

(* A resetEnvelopes(t) that pins without cancelling what is scheduled.     *)
resetEnvelopesNoCancel(n, t) ==
    [n EXCEPT !.gain   = SetValueAtTime(@, n.gain.value, t),
              !.cutoff = SetValueAtTime(@, n.cutoff.value, t)]

(* A resetEnvelopes(t) that pins the amplitude at silence.                 *)
resetEnvelopesToZero(n, t) ==
    LET g == CancelScheduledValues(n.gain, t)
        c == CancelScheduledValues(n.cutoff, t)
    IN  [n EXCEPT !.gain   = SetValueAtTime(g, Rat(0, 1), t),
                  !.cutoff = SetValueAtTime(c, c.value, t)]

(* resetEnvelopes(t): cancel, then pin at the value the parameter reads.   *)
resetEnvelopes(n, t) ==
    LET g == CancelScheduledValues(n.gain, t)
        c == CancelScheduledValues(n.cutoff, t)
    IN  [n EXCEPT !.gain   = SetValueAtTime(g, g.value, t),
                  !.cutoff = SetValueAtTime(c, c.value, t)]

(* A method call gives the object after the call, the exception it threw   *)
(* ("none" if it returned) and whether it reached osc.stop().              *)
Outcome(n, err, oscStop) == [note |-> n, err |-> err, oscStop |-> oscStop]

(* A start() whose decay leg aims at sustain itself, not scaled by maxGain. *)
NoteStartSustainAbsolute(n, t) ==
    LET n1 == resetEnvelopes(n, t)
        tA == t + n.attack
        tD == t + n.attack + n.decay
        n2 == [n1 EXCEPT !.gain = LinearRampToValueAtTime(@, maxGain, tA)]
        n3 == [n2 EXCEPT !.gain = LinearRampToValueAtTime(@, n.sustain, tD)]
        n4 == [n3 EXCEPT !.cutoff =
                  LinearRampToValueAtTime(@, RMul(n.freq, Rat(2, 1)), tD)]
    IN  IF tA < 0 THEN Outcome(n1, "RangeError", FALSE)
        ELSE IF tD < 0 THEN Outcome(n2, "RangeError", FALSE)
        ELSE Outcome(n4, "none", FALSE)

(* A start() whose cutoff sweep ends with the attack leg.                   *)
NoteStartCutoffAtAttack(n, t) ==
    LET n1 == resetEnvelopes(n, t)
        tA == t + n.attack
        tD == t + n.attack + n.decay
        n2 == [n1 EXCEPT !.gain = LinearRampToValueAtTime(@, maxGain, tA)]
        n3 == [n2 EXCEPT !.gain =
                  LinearRampToValueAtTime(@, RMul(maxGain, n.sustain), tD)]
        n4 == [n3 EXCEPT !.cutoff =
                  LinearRampToValueAtTime(@, RMul(n.freq, Rat(2, 1)), tA)]
    IN  IF tA < 0 THEN Outcome(n1, "RangeError", FALSE)
        ELSE IF tD < 0 THEN Outcome(n2, "RangeError", FALSE)
        ELSE Outcome(n4, "none", FALSE)

(* A start() whose attack leg aims at full scale, not at maxGain.           *)
NoteStartFullScale(n, t) ==
    LET n1 == resetEnvelopes(n, t)
        tA == t + n.attack
        tD == t + n.attack + n.decay
        n2 == [n1 EXCEPT !.gain = LinearRampToValueAtTime(@, Rat(1, 1), tA)]
        n3 == [n2 EXCEPT !.gain =
                  LinearRampToValueAtTime(@, RMul(maxGain, n.sustain), tD)]
        n4 == [n3 EXCEPT !.cutoff =
                  LinearRampToValueAtTime(@, RMul(n.freq, Rat(2, 1)), tD)]
    IN  IF tA < 0 THEN Outcome(n1, "RangeError", FALSE)
        ELSE IF tD < 0 THEN Outcome(n2, "RangeError", FALSE)
        ELSE Outcome(n4, "none", FALSE)

(* start(): the automation methods throw RangeError on a negative time.    *)
(* The oscillator is not started here.                                     *)
NoteStart(n, t) ==
    LET n1 == resetEnvelopes(n, t)
        tA == t + n.attack
        tD == t + n.attack + n.decay
        n2 == [n1 EXCEPT !.gain = LinearRampToValueAtTime(@, maxGain, tA)]
        n3 == [n2 EXCEPT !.gain =
                  LinearRampToValueAtTime(@, RMul(maxGain, n.sustain), tD)]
        n4 == [n3 EXCEPT !.cutoff =
                  LinearRampToValueAtTime(@, RMul(n.freq, Rat(2, 1)), tD)]
    IN  IF tA < 0 THEN Outcome(n1, "RangeError", FALSE)
        ELSE IF tD < 0 THEN Outcome(n2, "RangeError", FALSE)
        ELSE Outcome(n4, "none", FALSE)

(* osc.stop(when): InvalidStateError unless the oscillator was started.    *)
OscStop(n, when) ==
    IF ~n.osc.started
    THEN Outcome(n, "InvalidStateError", TRUE)
    ELSE Outcome([n EXCEPT !.osc.stopAt = when], "none", TRUE)

(* A stop() that reads the page's global release, not this.release.        *)
NoteStopLive(n, t) ==
    LET n1 == resetEnvelopes(n, t)
        tR == t + release
        n2 == [n1 EXCEPT !.gain = LinearRampToValueAtTime(@, Rat(0, 1), tR)]
    IN  IF tR < 0 THEN Outcome(n1, "RangeError", FALSE)
        ELSE OscStop(n2, tR)

(* stop() *)
NoteStop(n, t) ==
    LET n1 == resetEnvelopes(n, t)
        tR == t + n.release
        n2 == [n1 EXCEPT !.gain = LinearRampToValueAtTime(@, Rat(0, 1), tR)]
    IN  IF tR < 0 THEN Outcome(n1, "RangeError", FALSE)
        ELSE OscStop(n2, tR)

LogEntry(op, t, out) == [op |-> op, t |-> t, err |-> out.err, oscStop |-> out.oscStop]

-----------------------------------------------------------------------------
(* The values the environment supplies. *)

DefaultSustain == Rat(1, 4)   \* sustain = 0.25

(* Math.random(): some values of [0, 1) *)
RandomValues == {Rat(2, 15), Rat(3, 5)}

(* Math.random() over the whole of [0, 1), in steps of 1/DrawDen.          *)
DrawDen == 30

AllDraws == {Rat(k, DrawDen) : k \in 0..(DrawDen - 1)}

(* e.target.value of the four sliders, read through Number(): a range      *)
(* input always holds the text of a number, so Number() yields that        *)
(* number.  Times in ms; some values lie outside the documented ranges.    *)
AttackInputs == {-200, 20}
DecayInputs == {200}
SustainInputs == {Rat(3, 2), Rat(1, 2)}
ReleaseInputs == {-10, 40}

(* How far the clock moves in one step of the page model. *)
TimerSteps == {50, LoopTime}

(* Constructor arguments of a client that uses the class directly. *)
ClientArgs ==
    { <<69, DefaultAttack, DefaultDecay, DefaultSustain, DefaultRelease>>,
      <<55, 20, 200, Rat(1, 2), 40>>,
      <<69, -200, 100, Rat(3, 2), -10>>,
      <<69, 0, 100, Rat(1, 1), 0>>,
      <<55, 10, 0, Rat(0, 1), 40>> }

NoText == <<>>

-----------------------------------------------------------------------------
(* Timers of the page: setInterval, setTimeout and clearInterval share one *)
(* pool of ids.                                                            *)

ClearTimer(timers, id) == {tm \in timers : tm.id # id}

Dues == {tm.due : tm \in intervals \cup timeouts}

NextDue ==
    IF Dues = {} THEN MaxTime
    ELSE CHOOSE d \in Dues : \A e \in Dues : d <= e

-----------------------------------------------------------------------------
(* The page script *)

InitCommon ==
    /\ now = 0
    /\ attack = DefaultAttack
    /\ decay = DefaultDecay
    /\ sustain = DefaultSustain
    /\ release = DefaultRelease
    /\ labels = [att |-> NoText, dec |-> NoText, sus |-> NoText, rel |-> NoText]
    /\ looper = Null
    /\ intervals = {}
    /\ timeouts = {}
    /\ nextTimerId = 1
    /\ notes = <<>>
    /\ log = <<>>
    /\ inputLog = <<>>

Init == InitCommon /\ ctxState = "suspended"

(* A #start handler that leaves out the clearInterval of the running timer. *)
StartClickNoClear ==
    /\ nextTimerId <= MaxTimerId
    /\ ctxState' = "running"
    /\ intervals' = intervals \cup {[id |-> nextTimerId, due |-> now + LoopTime]}
    /\ looper' = nextTimerId
    /\ nextTimerId' = nextTimerId + 1
    /\ UNCHANGED <<now, attack, decay, sustain, release, labels, timeouts,
                   notes, log, inputLog>>

(* #start click *)
StartClick ==
    /\ nextTimerId <= MaxTimerId
    /\ ctxState' = "running"
    /\ intervals' =
          (IF looper # Null THEN ClearTimer(intervals, looper) ELSE intervals)
          \cup {[id |-> nextTimerId, due |-> now + LoopTime]}
    /\ timeouts' =
          (IF looper # Null THEN ClearTimer(timeouts, looper) ELSE timeouts)
    /\ looper' = nextTimerId
    /\ nextTimerId' = nextTimerId + 1
    /\ UNCHANGED <<now, attack, decay, sustain, release, labels, notes, log,
                   inputLog>>

(* A #stop handler that nulls looper and leaves out clearInterval.         *)
StopClickKeepsTimer ==
    /\ looper' = Null
    /\ UNCHANGED <<now, ctxState, attack, decay, sustain, release, labels,
                   intervals, timeouts, nextTimerId, notes, log, inputLog>>

(* #stop click *)
StopClick ==
    /\ intervals' = ClearTimer(intervals, looper)
    /\ timeouts' = ClearTimer(timeouts, looper)
    /\ looper' = Null
    /\ UNCHANGED <<now, ctxState, attack, decay, sustain, release, labels,
                   nextTimerId, notes, log, inputLog>>

(* A playANote that arms the release callback whether or not start()       *)
(* returned.                                                               *)
playANoteArmsAlways(r) ==
    LET midiPitch == midiNotes[((r.n * Len(midiNotes)) \div r.d) + 1]
        note == GenSynthNote(midiPitch, attack, decay, sustain, release)
        out  == NoteStart(note, now)
        i    == Len(notes) + 1
    IN  /\ notes' = Append(notes, out.note)
        /\ log' = Append(log, <<LogEntry("start", now, out)>>)
        /\ timeouts' = timeouts \cup
              {[id |-> nextTimerId, due |-> now + LoopTime, note |-> i]}
        /\ nextTimerId' = nextTimerId + 1

(* An index computation that scales the draw by one less than the length.  *)
pickIndexShort(r) == (r.n * (Len(midiNotes) - 1)) \div r.d

(* Math.floor(Math.random() * midiNotes.length), r the value drawn.        *)
pickIndex(r) == (r.n * Len(midiNotes)) \div r.d

(* playANote, with r the value Math.random() returned (sequences are       *)
(* 1-based here, hence the + 1).  When note.start() throws, the function   *)
(* is left before setTimeout.                                              *)
playANote(r) ==
    LET midiPitch == midiNotes[pickIndex(r) + 1]
        note == GenSynthNote(midiPitch, attack, decay, sustain, release)
        out  == NoteStart(note, now)
        i    == Len(notes) + 1
    IN  /\ notes' = Append(notes, out.note)
        /\ log' = Append(log, <<LogEntry("start", now, out)>>)
        /\ IF out.err = "none"
           THEN /\ timeouts' = timeouts \cup
                      {[id |-> nextTimerId, due |-> now + LoopTime, note |-> i]}
                /\ nextTimerId' = nextTimerId + 1
           ELSE UNCHANGED <<timeouts, nextTimerId>>

(* The interval timer tm comes due and runs playANote. *)
IntervalFire(tm, r) ==
    /\ tm \in intervals
    /\ tm.due = now
    /\ Len(notes) < MaxNotes
    /\ nextTimerId <= MaxTimerId
    /\ playANote(r)
    /\ intervals' = (intervals \ {tm}) \cup {[tm EXCEPT !.due = now + LoopTime]}
    /\ UNCHANGED <<now, ctxState, attack, decay, sustain, release, labels,
                   looper, inputLog>>

(* A release callback whose exception takes every timer of the page down.  *)
TimeoutFireFatal(tm) ==
    /\ tm \in timeouts
    /\ tm.due = now
    /\ LET out == NoteStop(notes[tm.note], now)
       IN  /\ notes' = [notes EXCEPT ![tm.note] = out.note]
           /\ log' = [log EXCEPT ![tm.note] = Append(@, LogEntry("stop", now, out))]
           /\ IF out.err = "none"
              THEN timeouts' = timeouts \ {tm} /\ intervals' = intervals
              ELSE timeouts' = {} /\ intervals' = {}
    /\ UNCHANGED <<now, ctxState, attack, decay, sustain, release, labels,
                   looper, nextTimerId, inputLog>>

(* The one-shot timer tm comes due and runs () => note.stop(). *)
TimeoutFire(tm) ==
    /\ tm \in timeouts
    /\ tm.due = now
    /\ LET out == NoteStop(notes[tm.note], now)
       IN  /\ notes' = [notes EXCEPT ![tm.note] = out.note]
           /\ log' = [log EXCEPT ![tm.note] = Append(@, LogEntry("stop", now, out))]
    /\ timeouts' = timeouts \ {tm}
    /\ UNCHANGED <<now, ctxState, attack, decay, sustain, release, labels,
                   looper, intervals, nextTimerId, inputLog>>

(* What a slider handler did with the event it was given. *)
InputEntry(p, v) == [param |-> p, value |-> v, outcome |-> "applied"]

(* An #attTime handler that updates the label and not the variable.        *)
AttTimeInputLabelOnly(v) ==
    /\ Len(inputLog) < MaxInputs
    /\ labels' = [labels EXCEPT !.att = <<v>>]
    /\ inputLog' = Append(inputLog, InputEntry("attack", v))
    /\ UNCHANGED <<now, ctxState, attack, decay, sustain, release, looper,
                   intervals, timeouts, nextTimerId, notes, log>>

(* #attTime input *)
AttTimeInput(v) ==
    /\ Len(inputLog) < MaxInputs
    /\ labels' = [labels EXCEPT !.att = <<v>>]
    /\ attack' = v
    /\ inputLog' = Append(inputLog, InputEntry("attack", v))
    /\ UNCHANGED <<now, ctxState, decay, sustain, release, looper, intervals,
                   timeouts, nextTimerId, notes, log>>

(* #decTime input *)
DecTimeInput(v) ==
    /\ Len(inputLog) < MaxInputs
    /\ labels' = [labels EXCEPT !.dec = <<v>>]
    /\ decay' = v
    /\ inputLog' = Append(inputLog, InputEntry("decay", v))
    /\ UNCHANGED <<now, ctxState, attack, sustain, release, looper, intervals,
                   timeouts, nextTimerId, notes, log>>

(* #susAmp input *)
SusAmpInput(v) ==
    /\ Len(inputLog) < MaxInputs
    /\ labels' = [labels EXCEPT !.sus = <<v>>]
    /\ sustain' = v
    /\ inputLog' = Append(inputLog, InputEntry("sustain", v))
    /\ UNCHANGED <<now, ctxState, attack, decay, release, looper, intervals,
                   timeouts, nextTimerId, notes, log>>

(* #relTime input *)
RelTimeInput(v) ==
    /\ Len(inputLog) < MaxInputs
    /\ labels' = [labels EXCEPT !.rel = <<v>>]
    /\ release' = v
    /\ inputLog' = Append(inputLog, InputEntry("release", v))
    /\ UNCHANGED <<now, ctxState, attack, decay, sustain, looper, intervals,
                   timeouts, nextTimerId, notes, log>>

(* Time passes up to t, no further than the next timer that is due; the    *)
(* audio thread renders every parameter up to t.                           *)
Advance(t) ==
    /\ now < t
    /\ t <= NextDue
    /\ t <= MaxTime
    /\ now' = t
    /\ notes' = [i \in DOMAIN notes |->
                    [notes[i] EXCEPT !.gain = Render(@, t),
                                     !.cutoff = Render(@, t)]]
    /\ UNCHANGED <<ctxState, attack, decay, sustain, release, labels, looper,
                   intervals, timeouts, nextTimerId, log, inputLog>>

Next ==
    \/ StartClick
    \/ StopClick
    \/ \E tm \in intervals, r \in RandomValues : IntervalFire(tm, r)
    \/ \E tm \in timeouts : TimeoutFire(tm)
    \/ \E v \in AttackInputs : AttTimeInput(v)
    \/ \E v \in DecayInputs : DecTimeInput(v)
    \/ \E v \in SustainInputs : SusAmpInput(v)
    \/ \E v \in ReleaseInputs : RelTimeInput(v)
    \/ \E d \in TimerSteps : Advance(Min(now + d, NextDue))

Spec == Init /\ [][Next]_vars

-----------------------------------------------------------------------------
(* A client that uses the GenSynthNote class directly, as its usage        *)
(* comment shows: it constructs one voice and calls start() and stop() on  *)
(* it in any order and at any instant, under a running context.            *)

VoiceInit == InitCommon /\ ctxState = "running"

RECURSIVE CallsFrom(_)
CallsFrom(i) == IF i > Len(log) THEN 0 ELSE Len(log[i]) + CallsFrom(i + 1)

(* new GenSynthNote(ctx, dest, ...args) *)
Construct(args) ==
    /\ notes = <<>>
    /\ notes' = Append(notes, GenSynthNote(args[1], args[2], args[3], args[4], args[5]))
    /\ log' = Append(log, <<>>)
    /\ UNCHANGED <<now, ctxState, attack, decay, sustain, release, labels,
                   looper, intervals, timeouts, nextTimerId, inputLog>>

(* voice.start() *)
CallStart(i) ==
    /\ CallsFrom(1) < MaxCalls
    /\ LET out == NoteStart(notes[i], now)
       IN  /\ notes' = [notes EXCEPT ![i] = out.note]
           /\ log' = [log EXCEPT ![i] = Append(@, LogEntry("start", now, out))]
    /\ UNCHANGED <<now, ctxState, attack, decay, sustain, release, labels,
                   looper, intervals, timeouts, nextTimerId, inputLog>>

(* voice.stop() *)
CallStop(i) ==
    /\ CallsFrom(1) < MaxCalls
    /\ LET out == NoteStop(notes[i], now)
       IN  /\ notes' = [notes EXCEPT ![i] = out.note]
           /\ log' = [log EXCEPT ![i] = Append(@, LogEntry("stop", now, out))]
    /\ UNCHANGED <<now, ctxState, attack, decay, sustain, release, labels,
                   looper, intervals, timeouts, nextTimerId, inputLog>>

(* The instants the client acts at: the end of the next scheduled ramp,    *)
(* the middle of the time left to it (taken from an instant that is itself *)
(* the start or an end of a ramp), and one loop length from now.           *)
EventTimes ==
    UNION { {notes[i].gain.ev[j].t : j \in DOMAIN notes[i].gain.ev} \cup
            {notes[i].cutoff.ev[j].t : j \in DOMAIN notes[i].cutoff.ev}
            : i \in DOMAIN notes }

NextEvent == {t \in EventTimes : t > now /\ \A u \in EventTimes : u > now => t <= u}

VoiceInstants ==
    NextEvent
    \cup {(now + t) \div 2 : t \in {u \in NextEvent : u > now + 1 /\ now \in EventTimes}}
    \cup {now + LoopTime}

VoiceNext ==
    \/ \E args \in ClientArgs : Construct(args)
    \/ \E i \in DOMAIN notes : CallStart(i)
    \/ \E i \in DOMAIN notes : CallStop(i)
    \/ \E t \in VoiceInstants : Advance(t)

VoiceSpec == VoiceInit /\ [][VoiceNext]_vars

-----------------------------------------------------------------------------
(* Reading the history *)

StartCalls(i) == Len(SelectSeq(log[i], LAMBDA e : e.op = "start"))

StopCalls(i) == Len(SelectSeq(log[i], LAMBDA e : e.op = "stop"))

OscStopAttempts(i) == Len(SelectSeq(log[i], LAMBDA e : e.oscStop))

TimeoutsOf(i) == {tm \in timeouts : tm.note = i}

Ramp(v, t) == [k |-> "ramp", v |-> v, t |-> t]

HasEvent(p, e) == \E j \in DOMAIN p.ev : p.ev[j] = e

(* The value of the most recent slider event for parameter p, or dflt.     *)
LatestInput(p, dflt) ==
    LET mine == SelectSeq(inputLog, LAMBDA e : e.param = p)
    IN  IF mine = <<>> THEN dflt ELSE mine[Len(mine)].value

(* The ranges the constructor's documentation gives the envelope values:   *)
(* times in seconds, not negative; sustain a fraction 0..1.                *)
ValidInput(e) ==
    IF e.param = "sustain"
    THEN RLeq(Rat(0, 1), e.value) /\ RLeq(e.value, Rat(1, 1))
    ELSE e.value >= 0

ValidEnvelope(n) ==
    /\ n.attack >= 0
    /\ n.decay >= 0
    /\ n.release >= 0
    /\ RLeq(Rat(0, 1), n.sustain) /\ RLeq(n.sustain, Rat(1, 1))

-----------------------------------------------------------------------------
(* C1: at most one periodic firing timer is active after any sequence of   *)
(* start and stop clicks, and it is the one looper names: a start issued   *)
(* while a timer runs cancels that timer first.                            *)
C1_AtMostOneTimer ==
    /\ Cardinality(intervals) <= 1
    /\ \A tm \in intervals : tm.id = looper

(* The scheduler was started again while a voice of the earlier run is     *)
(* still waiting for its release.                                          *)
C1_Witness ==
    /\ looper > 1
    /\ Cardinality(intervals) = 1
    /\ \E tm \in timeouts : tm.id < looper

(* C2, as claimed: once the scheduler is stopped, every voice whose        *)
(* trigger() returned still gets release() at its firing instant plus      *)
(* LoopTime, and its generator shutdown is scheduled at that release       *)
(* instant plus its release time.                                          *)
C2_TrajectoryKeptAfterStop ==
    looper = Null =>
        \A i \in DOMAIN notes :
            log[i][1].err = "none" =>
                IF StopCalls(i) = 0
                THEN \E tm \in TimeoutsOf(i) : tm.due = log[i][1].t + LoopTime
                ELSE /\ log[i][2].t = log[i][1].t + LoopTime
                     /\ notes[i].osc.stopAt = log[i][2].t + notes[i].release

(* C3: a stop click leaves no periodic timer and the scheduler not         *)
(* running; while the scheduler stays not running no voice is created and  *)
(* no trigger() is called; a stop click on a scheduler that is not running *)
(* changes nothing.                                                        *)
C3_StopCancelsFiring ==
    [][ /\ StopClick => (looper' = Null /\ intervals' = {})
        /\ (looper = Null /\ looper' = Null) =>
              /\ Len(notes') = Len(notes)
              /\ \A i \in DOMAIN notes :
                    Len(SelectSeq(log'[i], LAMBDA e : e.op = "start")) = StartCalls(i)
        /\ (looper = Null /\ StopClick) => UNCHANGED vars ]_vars

(* The scheduler was stopped after its first voice, and more than a loop   *)
(* length later there is still only that voice.                            *)
C3_Witness ==
    /\ looper = Null
    /\ Len(notes) = 1
    /\ now > log[1][1].t + LoopTime

(* C4, as claimed: every voice a firing created has had trigger() once,    *)
(* then either waits for exactly one release callback due LoopTime after   *)
(* the firing or has had release() once, and nothing more.                 *)
C4_OneTriggerOneRelease ==
    \A i \in DOMAIN notes :
        /\ log[i][1].op = "start"
        /\ StartCalls(i) = 1
        /\ Len(log[i]) <= 2
        /\ Len(log[i]) = 1 =>
              /\ Cardinality(TimeoutsOf(i)) = 1
              /\ \A tm \in TimeoutsOf(i) : tm.due = log[i][1].t + LoopTime
        /\ Len(log[i]) = 2 =>
              /\ log[i][2].op = "stop"
              /\ TimeoutsOf(i) = {}

(* C5: a voice's four envelope values never change after its creation; a   *)
(* step that changes a global envelope setting changes no voice and no     *)
(* pending release; and the ramps release() and trigger() scheduled end at *)
(* the call instant plus the voice's own values.                           *)
C5_RampsUseOwnValues ==
    \A i \in DOMAIN notes :
        LET n == notes[i]
            e == log[i][Len(log[i])]
        IN  /\ (e.op = "stop" /\ e.err # "RangeError") =>
                  HasEvent(n.gain, Ramp(Rat(0, 1), e.t + n.release))
            /\ (e.op = "start" /\ e.err = "none") =>
                  /\ HasEvent(n.gain, Ramp(maxGain, e.t + n.attack))
                  /\ HasEvent(n.gain, Ramp(RMul(maxGain, n.sustain),
                                           e.t + n.attack + n.decay))
                  /\ HasEvent(n.cutoff, Ramp(RMul(n.freq, Rat(2, 1)),
                                             e.t + n.attack + n.decay))

C5_SnapshotImmutable ==
    /\ []C5_RampsUseOwnValues
    /\ [][ /\ \A i \in DOMAIN notes :
                /\ notes'[i].attack = notes[i].attack
                /\ notes'[i].decay = notes[i].decay
                /\ notes'[i].sustain = notes[i].sustain
                /\ notes'[i].release = notes[i].release
           /\ <<attack, decay, sustain, release>>' # <<attack, decay, sustain, release>> =>
                UNCHANGED <<notes, timeouts>> ]_vars

(* A voice has been released while the global release setting differs     *)
(* from the one the voice was created with.                                *)
C5_Witness ==
    \E i \in DOMAIN notes :
        /\ StopCalls(i) = 1
        /\ notes[i].release # release

(* C6: each global envelope setting holds the value of the most recent     *)
(* slider event for it (the default if there was none), and a voice        *)
(* created by a firing carries those values.                               *)
C6_GlobalsAreLatest ==
    /\ attack = LatestInput("attack", DefaultAttack)
    /\ decay = LatestInput("decay", DefaultDecay)
    /\ sustain = LatestInput("sustain", DefaultSustain)
    /\ release = LatestInput("release", DefaultRelease)

C7_StopInstant ==
    \A i \in DOMAIN notes :
        LET l == log[i]
        IN  (/\ ValidEnvelope(notes[i])
             /\ Len(l) >= 2
             /\ l[Len(l)].op = "stop"
             /\ \A j \in 1..(Len(l) - 1) : l[j].op = "start" /\ l[j].err = "none") =>
                /\ notes[i].osc.stopAt = l[Len(l)].t + notes[i].release
                /\ HasEvent(notes[i].gain,
                            Ramp(Rat(0, 1), l[Len(l)].t + notes[i].release))

(* C8, as claimed: on a voice with valid envelope values that was          *)
(* triggered, at most one call of release() attempts the generator stop.   *)
C8_NoSecondShutdown ==
    \A i \in DOMAIN notes :
        (/\ ValidEnvelope(notes[i])
         /\ Len(log[i]) >= 1
         /\ log[i][1].op = "start") =>
            OscStopAttempts(i) <= 1

(* C9, as claimed: release() on a voice with valid envelope values that    *)
(* was never triggered schedules nothing on either control stream and      *)
(* issues no generator shutdown.                                           *)
C9_ReleaseOnIdleIsNoop ==
    \A i \in DOMAIN notes :
        (ValidEnvelope(notes[i]) /\ StartCalls(i) = 0) =>
            /\ notes[i].gain.ev = <<>>
            /\ notes[i].cutoff.ev = <<>>
            /\ OscStopAttempts(i) = 0

(* C10, as claimed: every slider event whose value is outside its valid    *)
(* range has the outcome InvalidParameter.                                 *)
C10_InvalidSurfaced ==
    \A j \in DOMAIN inputLog :
        ~ValidInput(inputLog[j]) => inputLog[j].outcome = "InvalidParameter"


-----------------------------------------------------------------------------
(* The last call made on voice i, for a voice that has had one.            *)
LastCall(i) == log[i][Len(log[i])]

Triggered(i) ==
    /\ Len(log[i]) >= 1
    /\ LastCall(i).op = "start"
    /\ LastCall(i).err = "none"

(* C11, as claimed: once trigger() has run at instant t on a voice with    *)
(* valid envelope values (and nothing was called since), the amplitude     *)
(* scheduled for t + attack is maxGain and the one scheduled for           *)
(* t + attack + decay is maxGain * sustain.                                *)
C11_PeakThenSustain ==
    \A i \in DOMAIN notes :
        (ValidEnvelope(notes[i]) /\ Triggered(i)) =>
            LET n == notes[i]
                t == LastCall(i).t
            IN  /\ ValueAtTime(n.gain, t + n.attack) = maxGain
                /\ ValueAtTime(n.gain, t + n.attack + n.decay) = RMul(maxGain, n.sustain)

(* C11, amended: the amplitude scheduled for t + attack + decay is         *)
(* maxGain * sustain; the one scheduled for t + attack is maxGain when     *)
(* decay > 0 (with decay = 0 the two instants are one and the value there  *)
(* is maxGain * sustain).  When the clock reaches either instant the       *)
(* parameter reads that value.                                             *)
C11_PeakThenSustainAmended ==
    \A i \in DOMAIN notes :
        (ValidEnvelope(notes[i]) /\ Triggered(i)) =>
            LET n  == notes[i]
                t  == LastCall(i).t
                tA == t + n.attack
                tD == t + n.attack + n.decay
            IN  /\ n.decay > 0 => ValueAtTime(n.gain, tA) = maxGain
                /\ ValueAtTime(n.gain, tD) = RMul(maxGain, n.sustain)
                /\ (n.decay > 0 /\ now = tA /\ now > t) => n.gain.value = maxGain
                /\ (now = tD /\ now > t) => n.gain.value = RMul(maxGain, n.sustain)

(* The clock stands at the end of the decay leg of a triggered voice with  *)
(* attack > 0 and decay > 0.                                               *)
C11_Witness ==
    \E i \in DOMAIN notes :
        /\ ValidEnvelope(notes[i]) /\ Triggered(i)
        /\ notes[i].attack > 0 /\ notes[i].decay > 0
        /\ now = LastCall(i).t + notes[i].attack + notes[i].decay
        /\ notes[i].gain.value = RMul(maxGain, notes[i].sustain)


-----------------------------------------------------------------------------
PrevCall(i) == log[i][Len(log[i]) - 1]

(* The amplitude the attack and decay legs of a trigger at instant s,      *)
(* anchored at value v0, give at instant t >= s.                           *)
EnvelopeAt(n, v0, s, t) ==
    IF t < s + n.attack
    THEN Lerp(v0, s, maxGain, s + n.attack, t)
    ELSE IF t < s + n.attack + n.decay
         THEN Lerp(maxGain, s + n.attack, RMul(maxGain, n.sustain),
                   s + n.attack + n.decay, t)
         ELSE RMul(maxGain, n.sustain)

(* The last call on voice i is a release() made while the attack or decay  *)
(* leg of the trigger() before it was still in progress.                   *)
EarlyRelease(i) ==
    /\ Len(log[i]) >= 2
    /\ LastCall(i).op = "stop" /\ LastCall(i).err # "RangeError"
    /\ PrevCall(i).op = "start" /\ PrevCall(i).err = "none"
    /\ PrevCall(i).t < LastCall(i).t
    /\ LastCall(i).t < PrevCall(i).t + notes[i].attack + notes[i].decay

(* C12: after an early release() at instant t the amplitude automation     *)
(* from t onward is exactly the pin at t, holding the mid-ramp value the   *)
(* envelope had reached, and one ramp to 0 ending at t + release; the      *)
(* amplitude then falls linearly from that value and is 0 from             *)
(* t + release on.                                                         *)
C12_EarlyReleaseFromCurrent ==
    \A i \in DOMAIN notes :
        (ValidEnvelope(notes[i]) /\ EarlyRelease(i)) =>
            LET n    == notes[i]
                s    == PrevCall(i).t
                t    == LastCall(i).t
                vmid == EnvelopeAt(n, ValueAtTime(n.gain, s), s, t)
                zero == Rat(0, 1)
            IN  /\ SelectSeq(n.gain.ev, LAMBDA x : x.t >= t)
                      = <<[k |-> "set", v |-> vmid, t |-> t], Ramp(zero, t + n.release)>>
                /\ (t < now /\ now <= t + n.release) =>
                      n.gain.value = Lerp(vmid, t, zero, t + n.release, now)
                /\ now > t + n.release => n.gain.value = zero

(* A voice released half way up its attack leg has faded to 0.             *)
C12_Witness ==
    \E i \in DOMAIN notes :
        /\ ValidEnvelope(notes[i]) /\ EarlyRelease(i)
        /\ notes[i].attack > 0 /\ notes[i].release > 0
        /\ 2 * (LastCall(i).t - PrevCall(i).t) = notes[i].attack
        /\ now = LastCall(i).t + notes[i].release
        /\ notes[i].gain.value = Rat(0, 1)


-----------------------------------------------------------------------------
(* Parameter p, read as p.value before a call at instant t, is q after it: *)
(* q still reads the same value, and the first thing q's timeline holds    *)
(* from t on is a pin of that value at t.                                  *)
Anchored(p, q, t) ==
    /\ q.value = p.value
    /\ \E j \in DOMAIN q.ev :
          /\ q.ev[j] = [k |-> "set", v |-> p.value, t |-> t]
          /\ \A m \in 1..(j - 1) : q.ev[m].t < t

(* C13: every trigger() and every release() anchors the amplitude and the  *)
(* cutoff at the value they read just before the call, so the value just   *)
(* after the anchor is the value just before it.                           *)
C13_AnchorContinuous ==
    [][\A i \in DOMAIN notes :
          (i \in DOMAIN log' /\ log'[i] # log[i]) =>
              /\ Anchored(notes[i].gain, notes'[i].gain, now)
              /\ Anchored(notes[i].cutoff, notes'[i].cutoff, now)]_vars

(* trigger() then release() at one instant, on a voice that was sounding:  *)
(* the amplitude at that instant is still the one it read before.          *)
C13_Witness ==
    \E i \in DOMAIN notes :
        /\ Len(log[i]) >= 2
        /\ PrevCall(i).op = "start" /\ PrevCall(i).err = "none"
        /\ LastCall(i).op = "stop"
        /\ PrevCall(i).t = now /\ LastCall(i).t = now
        /\ notes[i].attack > 0
        /\ notes[i].gain.value # Rat(0, 1)
        /\ ValueAtTime(notes[i].gain, now) = notes[i].gain.value


-----------------------------------------------------------------------------
(* The page with the sliders left alone and Math.random() ranging over     *)
(* [0, 1): the start button, the firings, the releases they arm, and time. *)

PitchNext ==
    \/ StartClick
    \/ \E tm \in intervals, r \in AllDraws : IntervalFire(tm, r)
    \/ \E tm \in timeouts : TimeoutFire(tm)
    \/ \E d \in TimerSteps : Advance(Min(now + d, NextDue))

PitchSpec == Init /\ [][PitchNext]_vars

(* C14: every voice a firing creates has the frequency of a member of      *)
(* midiNotes; the index a firing computes is within the pool for every     *)
(* draw, and every member of the pool is the pick of some draw.            *)
C14_PitchFromPool ==
    /\ \A i \in DOMAIN notes :
          \E j \in DOMAIN midiNotes : notes[i].freq = mtof(midiNotes[j])
    /\ \A r \in AllDraws : pickIndex(r) \in 0..(Len(midiNotes) - 1)
    /\ \A j \in DOMAIN midiNotes : \E r \in AllDraws : pickIndex(r) + 1 = j

(* Firings have picked the first and the last member of the pool.          *)
C14_Witness ==
    \E i, j \in DOMAIN notes :
        /\ notes[i].freq = mtof(midiNotes[1])
        /\ notes[j].freq = mtof(midiNotes[Len(midiNotes)])


-----------------------------------------------------------------------------
(* The page keeps no collection of voices.  The voices it can still reach  *)
(* are the ones captured by a pending () => note.stop() callback.          *)
ActiveVoices == {tm.note : tm \in timeouts}

(* The fade of voice i is over and its oscillator has stopped.             *)
Finished(i) ==
    /\ StopCalls(i) >= 1
    /\ notes[i].osc.started
    /\ notes[i].osc.stopAt # NoStop /\ now >= notes[i].osc.stopAt
    /\ ValueAtTime(notes[i].gain, now) = Rat(0, 1)

-----------------------------------------------------------------------------
(* The automation parameter p holds from instant t on.                     *)
From(p, t) == SelectSeq(p.ev, LAMBDA x : x.t >= t)

(* C16: after trigger() at instant t on a voice with valid envelope values *)
(* the cutoff automation from t on is the pin at t and one ramp to         *)
(* 2 * freq ending at t + attack + decay, where the amplitude decay leg    *)
(* ends; the cutoff moves linearly to that target and then rests there.    *)
(* After release() at instant t the cutoff automation from t on is the     *)
(* pin at t alone, and the cutoff rests at the pinned value.               *)
C16_CutoffSweepOnce ==
    \A i \in DOMAIN notes :
        LET n    == notes[i]
            t    == LastCall(i).t
            tD   == t + n.attack + n.decay
            twoF == RMul(n.freq, Rat(2, 1))
            c    == From(n.cutoff, t)
        IN  /\ (ValidEnvelope(n) /\ Triggered(i)) =>
                  /\ Len(c) = 2
                  /\ c[1].k = "set" /\ c[1].t = t
                  /\ c[2] = Ramp(twoF, tD)
                  /\ HasEvent(n.gain, Ramp(RMul(maxGain, n.sustain), tD))
                  /\ (t < now /\ now < tD) =>
                        n.cutoff.value = Lerp(c[1].v, t, twoF, tD, now)
                  /\ (t < now /\ now >= tD) => n.cutoff.value = twoF
            /\ (Len(log[i]) >= 1 /\ LastCall(i).op = "stop") =>
                  c = <<[k |-> "set", v |-> n.cutoff.value, t |-> t]>>

(* A voice released in the middle of its cutoff sweep, some time later:    *)
(* the cutoff rests between the two ends of the sweep.                     *)
C16_Witness ==
    \E i \in DOMAIN notes :
        /\ ValidEnvelope(notes[i]) /\ EarlyRelease(i)
        /\ now > LastCall(i).t
        /\ notes[i].cutoff.value # RMul(notes[i].freq, Rat(2, 1))
        /\ notes[i].cutoff.value # RMul(notes[i].freq, Rat(8, 1))


-----------------------------------------------------------------------------
(* C17: a step in which the stop() of voice i throws leaves the interval   *)
(* timer and its handle as they were, leaves every pending release         *)
(* callback of another voice in place, and leaves every other voice, its   *)
(* automation included, unchanged.                                         *)
C17_FailureIsolated ==
    [][\A i \in DOMAIN notes :
          (/\ Len(log'[i]) = Len(log[i]) + 1
           /\ log'[i][Len(log'[i])].op = "stop"
           /\ log'[i][Len(log'[i])].err # "none") =>
              /\ intervals' = intervals
              /\ looper' = looper
              /\ \A tm \in timeouts : tm.note # i => tm \in timeouts'
              /\ \A j \in DOMAIN notes :
                    j # i => notes'[j] = notes[j] /\ log'[j] = log[j]]_vars

(* The stop() of one voice has thrown; the interval timer is still armed   *)
(* and another voice still has its release callback pending.               *)
C17_Witness ==
    \E i, j \in DOMAIN notes :
        /\ i # j
        /\ StopCalls(i) = 1 /\ LastCall(i).op = "stop" /\ LastCall(i).err # "none"
        /\ TimeoutsOf(j) # {}
        /\ intervals # {} /\ looper # Null


-----------------------------------------------------------------------------
(* C18, as claimed: once start() has returned on a voice its oscillator is *)
(* running, and osc.stop() is only ever reached on an oscillator that was  *)
(* started.                                                                *)
C18_StartedBeforeStop ==
    \A i \in DOMAIN notes :
        /\ (\E j \in DOMAIN log[i] : log[i][j].op = "start" /\ log[i][j].err = "none")
              => notes[i].osc.started
        /\ OscStopAttempts(i) > 0 => notes[i].osc.started

(* C19, as claimed, in the form a finite run can refute: once stop() has   *)
(* been called on a voice with valid envelope values (and got as far as    *)
(* the oscillator) and the voice's release time has gone by, the voice is  *)
(* finished: its oscillator has stopped and its amplitude is 0.            *)
C19_ReleasedVoiceFinishes ==
    \A i \in DOMAIN notes :
        (\E j \in DOMAIN log[i] :
            /\ ValidEnvelope(notes[i])
            /\ log[i][j].op = "stop" /\ log[i][j].oscStop
            /\ now >= log[i][j].t + notes[i].release) => Finished(i)


-----------------------------------------------------------------------------
InGainRange(v) == RLeq(Rat(0, 1), v) /\ RLeq(v, maxGain)

(* C20: for a voice with valid envelope values the amplitude the parameter *)
(* reads, the amplitude its timeline gives now and every value its         *)
(* timeline holds lie in [0, maxGain], whatever start() and stop() calls   *)
(* were made and when; before the first call the amplitude is 0 and        *)
(* nothing is scheduled.                                                   *)
C20_AmplitudeWithinRange ==
    \A i \in DOMAIN notes :
        ValidEnvelope(notes[i]) =>
            /\ InGainRange(notes[i].gain.value)
            /\ InGainRange(ValueAtTime(notes[i].gain, now))
            /\ \A j \in DOMAIN notes[i].gain.ev : InGainRange(notes[i].gain.ev[j].v)
            /\ log[i] = <<>> =>
                  notes[i].gain.value = Rat(0, 1) /\ notes[i].gain.ev = <<>>

(* A voice triggered, released and triggered again stands at the top of    *)
(* its attack leg.                                                         *)
C20_Witness ==
    \E i \in DOMAIN notes :
        /\ ValidEnvelope(notes[i])
        /\ StartCalls(i) = 2 /\ StopCalls(i) = 1
        /\ notes[i].attack > 0
        /\ notes[i].sustain # Rat(1, 1)
        /\ notes[i].gain.value = maxGain

====
